---- MODULE Spec2Model ----
(***************************************************************************)
(* A model of analysis.py: resolving PGN games to games.id, scoring each   *)
(* game ply by ply with a UCI engine in a pool of workers, and upserting   *)
(* the result rows into the analysis table of chess.db.                    *)
(*                                                                         *)
(* The specifications share the definitions below:                         *)
(*   SpecJob      one worker running _analyze_job, one loop pass a step    *)
(*   SpecResolve  resolve_game_id against a stored players/games/moves     *)
(*   SpecLoad     process_pgn of matrix.py filling chess.db from a PGN,    *)
(*                then resolve_game_id on the records it stored            *)
(*   Spec         main(): scan, pool, collection, sorted batch upserts,    *)
(*                with the process being killed and run again              *)
(***************************************************************************)
EXTENDS Integers, Sequences, FiniteSets, TLC

VARIABLES
    \* ---- SpecJob: one call of _analyze_job in one worker process
    jpc,        \* "idle" | "loop" | "finish" | "done"
    job,        \* the Job being analysed
    cfg,        \* the run-wide knobs SKIP_PLIES and MAX_PLIES
    loc,        \* the locals of _analyze_job
    jlog,       \* what each loop pass did (ply, status, mover, best, after)
    result,     \* the tuple _analyze_job returned
    \* ---- SpecResolve: one call of resolve_game_id
    rpc, db, rin, rout,
    \* ---- SpecLoad: process_pgn filling chess.db
    lpc,        \* "off" | "load" | "loaded" | "crashed"
    lpgn,       \* the games of the PGN file process_pgn reads
    ltx,        \* chess.db as the loader's connection sees it, uncommitted rows included
    \* ---- Spec: main()
    phase,      \* where main() is: "start", "scan", "pool", "collected", "write", "done", ...
    run,        \* how many times the program has been started
    env,        \* which of the engine binary, the PGN file and chess.db exist
    hasTable,   \* whether chess.db has the analysis table
    analysis,   \* the rows of the analysis table
    pgn,        \* the games of the PGN file
    jobs,       \* the list scan_pgn_and_resolve_jobs built
    tasks,      \* the chunks of jobs not yet taken by a worker
    worker,     \* the pool's worker processes
    engines,    \* the engine processes the pool's workers started in this run
    rows,       \* the parent's list of returned tuples
    src,        \* for each tuple of rows, the position in jobs of the job it came from
    written,    \* rows[:written] have been upserted and committed
    lastw,      \* per game_id, the tuples most recently written to the table
    killedAt    \* how many rows the killed run had committed

jobVars == <<jpc, job, cfg, loc, jlog, result>>
resVars == <<rpc, db, rin, rout>>
loadVars == <<lpc, lpgn, ltx>>
mainVars == <<phase, run, env, hasTable, analysis, pgn, jobs, tasks, worker, engines,
              rows, src, written, lastw, killedAt>>
vars == <<jobVars, resVars, loadVars, mainVars>>

----------------------------------------------------------------------------
(* Bounds of the model *)

\* longest move sequence of a job
MaxPly == 3

\* how many games the PGN file holds at most
MaxGames == 3

\* rows per upsert_analysis_batch call (BATCH = 400 in the source), scaled down so
\* that a run of MaxGames jobs writes more than one batch
BATCH == 2

\* after how many games process_pgn commits (commit_every = 1000 in the source),
\* scaled down so that a load of MaxGames games commits part of the file early
CommitEvery == 2

\* how many leading moves resolve_game_id compares (uci_moves[:10] in the source),
\* scaled down so that stored games can agree on the probe and differ after it
ProbeLen == 2

----------------------------------------------------------------------------
(* Values *)

\* Python's None where an integer is expected (SQLite row ids start at 1)
None == 0

WHITE == "w"
BLACK == "b"
Other(c) == IF c = WHITE THEN BLACK ELSE WHITE

Max2(a, b) == IF a >= b THEN a ELSE b
Abs(a) == IF a >= 0 THEN a ELSE 0 - a

RECURSIVE Gcd(_, _)
Gcd(a, b) == IF b = 0 THEN a ELSE Gcd(b, a % b)

\* a non-negative float as an exact fraction in lowest terms
Rat(n, d) == LET g == Gcd(n, d) IN [num |-> n \div g, den |-> d \div g]

RECURSIVE IsqrtIn(_, _, _)
IsqrtIn(x, lo, hi) ==
    IF lo >= hi THEN lo
    ELSE LET mid == (lo + hi + 1) \div 2
         IN IF mid * mid <= x THEN IsqrtIn(x, mid, hi) ELSE IsqrtIn(x, lo, mid - 1)
\* floor(sqrt(x)) for 0 <= x < 2^31
Isqrt(x) == IsqrtIn(x, 0, 46340)

----------------------------------------------------------------------------
(* Knobs of analysis.py *)

MATE_SCORE == 100000
MOVETIME_MS == 20
ENGINE_NAME == "Stockfish"

----------------------------------------------------------------------------
(* The engine: what SimpleEngine.analyse gives back for one position.      *)
(* A score is relative to the side to move, as UCI reports it:             *)
(*   cp v      centipawns                                                  *)
(*   mate n    n > 0 the side to move mates in n, n < 0 it is mated in -n, *)
(*             n = 0 it is checkmated on the board                         *)
(*   given     the negation of mate 0 (python-chess MateGiven)             *)
(* or the call raises: "terminated" (the process died) or "error".         *)

Cp(v) == [kind |-> "cp", v |-> v]
Mate(n) == [kind |-> "mate", v |-> n]
MateGiven == [kind |-> "given", v |-> 0]
Terminated == [kind |-> "terminated", v |-> 0]
ProtoError == [kind |-> "error", v |-> 0]

Scores == {Cp(0 - 300), Cp(0), Cp(120), Mate(0), Mate(2), Mate(0 - 1)}
Faults == {Terminated, ProtoError}
Responses == Scores \cup Faults

IsFault(r) == r.kind \in {"terminated", "error"}

\* a dead engine process answers every request with EngineTerminatedError
Respond(alive, r) == IF alive THEN r ELSE Terminated

\* Score.__neg__
NegScore(s) ==
    CASE s.kind = "cp" -> Cp(0 - s.v)
      [] s.kind = "mate" -> IF s.v = 0 THEN MateGiven ELSE Mate(0 - s.v)
      [] OTHER -> Mate(0)

\* PovScore.white() of a score relative to `turn`
PovWhite(s, turn) == IF turn = WHITE THEN s ELSE NegScore(s)

IsMate(s) == s.kind \in {"mate", "given"}

\* _score_cp_white(eval_), eval_ being relative to `turn`
ScoreCpWhite(s, turn) ==
    LET w == PovWhite(s, turn) IN
    IF IsMate(s)
    THEN LET mate_ply == w.v
         IN IF mate_ply # 0 /\ mate_ply > 0 THEN MATE_SCORE ELSE 0 - MATE_SCORE
    ELSE w.v

AcplToAccuracy_NoFloor(acpl) ==
    LET a == IF acpl.num >= 0 THEN acpl ELSE Rat(0, 1)
        x == 2500 * (a.num \div a.den) + (2500 * (a.num % a.den)) \div a.den
    IN 10000 - Isqrt(x)

\* _acpl_to_accuracy(acpl) in hundredths of a point, rounded up:
\* 100 * max(0, 100 - 0.5*sqrt(acpl)) = max(0, 10000 - sqrt(2500*acpl))
AcplToAccuracy(acpl) ==
    LET a == IF acpl.num >= 0 THEN acpl ELSE Rat(0, 1)
        x == 2500 * (a.num \div a.den) + (2500 * (a.num % a.den)) \div a.den
    IN Max2(0, 10000 - Isqrt(x))

----------------------------------------------------------------------------
(* Jobs and the board.  The board is python-chess's: the model keeps the   *)
(* side to move and whether push_uci accepts a move.                       *)

\* moves in UCI notation; "h9h9" is one push_uci rejects
LegalUci == {"e2e4", "g1f3"}
IllegalUci == {"h9h9"}
Uci == LegalUci \cup IllegalUci
Legal(u) == u \in LegalUci

\* starting positions: the standard one, one with Black to move, one chess.Board rejects
Fens == {"startpos", "black to move", "garbage"}
FenValid(fen) == fen # "garbage"
FenTurn(fen) == IF fen = "black to move" THEN BLACK ELSE WHITE

RECURSIVE SeqsUpTo(_, _)
SeqsUpTo(S, n) ==
    IF n = 0 THEN {<<>>}
    ELSE LET shorter == SeqsUpTo(S, n - 1)
         IN shorter \cup {Append(q, x) : q \in {r \in shorter : Len(r) = n - 1}, x \in S}

\* class Job
Job(gid, fen, ucis) == [game_id |-> gid, initial_fen |-> fen, uci_moves |-> ucis]

\* wall-clock readings of int((time.time() - t0) * 1000)
MsValues == {3, 8}

NoNote == <<>>
NoteIllegalSkip(ply) == [what |-> "illegal at ply", uci |-> "", ply |-> ply]
NoteIllegal_NoPly(u, ply) == [what |-> "illegal move", uci |-> u, ply |-> 0]
NoteIllegal(u, ply) == [what |-> "illegal move", uci |-> u, ply |-> ply]
NoteFault(r) ==
    [what |-> IF r.kind = "terminated" THEN "engine terminated" ELSE "engine error",
     uci |-> "", ply |-> 0]
NoteBadFen == [what |-> "bad FEN", uci |-> "", ply |-> 0]

\* the result tuple of _analyze_job
Row(gid, plies, aw, ab, accw, accb, ms, skip, notes) ==
    [game_id |-> gid, plies_analyzed |-> plies, acpl_white |-> aw, acpl_black |-> ab,
     accuracy_white |-> accw, accuracy_black |-> accb, ms_total |-> ms,
     engine |-> ENGINE_NAME, movetime_ms |-> MOVETIME_MS, skipped_plies |-> skip,
     notes |-> notes]

\* the early return on a starting position chess.Board rejects
BadFenRow(j, c, ms) ==
    Row(j.game_id, 0, Rat(0, 1), Rat(0, 1), 10000, 10000, ms, c.skip, <<NoteBadFen>>)

\* the locals of _analyze_job before the loop; `alive` is the worker's _engine process
InitLocals(j, alive) ==
    [turn |-> FenTurn(j.initial_fen), ply_idx |-> 0, acpl_w |-> 0, acpl_b |-> 0,
     n_w |-> 0, n_b |-> 0, notes |-> <<>>, alive |-> alive, ctl |-> "next"]

\* an analyse call the pass never made
NoResp == [kind |-> "none", v |-> 0]

\* what one pass did: the answers it got, the two scores it compared (s_best_stm and
\* s_after_mover) and the loss it added to the mover's total
LogEntry(ply, what, white, pre, post, best, after, loss) ==
    [ply |-> ply, what |-> what, white |-> white, pre |-> pre, post |-> post,
     best |-> best, after |-> after, loss |-> loss]

\* loss = max(0, s_best_stm - s_after_mover)
Loss(best, after) == Max2(0, best - after)

Raised_Discard(s, ply, turn, r) ==
    [s EXCEPT !.ply_idx = ply, !.turn = turn, !.notes = Append(@, NoteFault(r)),
              !.alive = s.alive /\ r.kind # "terminated", !.ctl = "stop",
              !.acpl_w = 0, !.acpl_b = 0, !.n_w = 0, !.n_b = 0]

\* an analyse call that raised: the outer except clauses note it and end the loop
Raised(s, ply, turn, r) ==
    [s EXCEPT !.ply_idx = ply, !.turn = turn, !.notes = Append(@, NoteFault(r)),
              !.alive = s.alive /\ r.kind # "terminated", !.ctl = "stop"]

\* one pass of `for u in job.uci_moves`, the engine answering pre before the move
\* and post after it; gives the locals and what the pass did
PlyStep(s, u, pre, post, c) ==
    LET ply == s.ply_idx + 1
        stm_is_white == s.turn = WHITE
        r1 == Respond(s.alive, pre)
        r2 == Respond(s.alive, post)
        s_best_white == ScoreCpWhite(r1, s.turn)
        s_best_stm == IF stm_is_white THEN s_best_white ELSE 0 - s_best_white
        turn2 == Other(s.turn)
        s_played_white == ScoreCpWhite(r2, turn2)
        s_after_stm == IF turn2 = WHITE THEN s_played_white ELSE 0 - s_played_white
        s_after_mover == 0 - s_after_stm
        loss == Loss(s_best_stm, s_after_mover)
    IN
    IF c.skip # 0 /\ ply <= c.skip
    THEN IF Legal(u)
         THEN [st |-> [s EXCEPT !.ply_idx = ply, !.turn = turn2],
               log |-> LogEntry(ply, "skipped", stm_is_white, NoResp, NoResp, 0, 0, 0)]
         ELSE [st |-> [s EXCEPT !.ply_idx = ply, !.ctl = "stop",
                                !.notes = Append(@, NoteIllegalSkip(ply))],
               log |-> LogEntry(ply, "illegal", stm_is_white, NoResp, NoResp, 0, 0, 0)]
    ELSE IF c.max # 0 /\ ply > c.max
    THEN [st |-> [s EXCEPT !.ply_idx = ply, !.ctl = "stop"],
          log |-> LogEntry(ply, "cut", stm_is_white, NoResp, NoResp, 0, 0, 0)]
    ELSE IF IsFault(r1)
    THEN [st |-> Raised(s, ply, s.turn, r1),
          log |-> LogEntry(ply, "fault", stm_is_white, r1, NoResp, 0, 0, 0)]
    ELSE IF ~Legal(u)
    THEN [st |-> [s EXCEPT !.ply_idx = ply, !.ctl = "stop",
                           !.notes = Append(@, NoteIllegal(u, ply))],
          log |-> LogEntry(ply, "illegal", stm_is_white, r1, NoResp, 0, 0, 0)]
    ELSE IF IsFault(r2)
    THEN [st |-> Raised(s, ply, turn2, r2),
          log |-> LogEntry(ply, "fault", stm_is_white, r1, r2, 0, 0, 0)]
    ELSE [st |-> [s EXCEPT !.ply_idx = ply, !.turn = turn2,
                           !.acpl_w = IF stm_is_white THEN @ + Abs(loss) ELSE @,
                           !.n_w = IF stm_is_white THEN @ + 1 ELSE @,
                           !.acpl_b = IF stm_is_white THEN @ ELSE @ + Abs(loss),
                           !.n_b = IF stm_is_white THEN @ ELSE @ + 1],
          log |-> LogEntry(ply, "scored", stm_is_white, r1, r2, s_best_stm, s_after_mover, Abs(loss))]

FinishRow_Pooled(j, s, c, ms) ==
    LET acpl == Rat(s.acpl_w + s.acpl_b, Max2(1, s.n_w + s.n_b))
    IN Row(j.game_id, s.n_w + s.n_b, acpl, acpl,
           AcplToAccuracy(acpl), AcplToAccuracy(acpl), ms, c.skip, s.notes)

FinishRow_TotalPlies(j, s, c, ms) ==
    LET acpl_w == Rat(s.acpl_w, Max2(1, s.n_w + s.n_b))
        acpl_b == Rat(s.acpl_b, Max2(1, s.n_w + s.n_b))
    IN Row(j.game_id, s.n_w + s.n_b, acpl_w, acpl_b,
           AcplToAccuracy(acpl_w), AcplToAccuracy(acpl_b), ms, c.skip, s.notes)

\* the tail of _analyze_job: the averages, the accuracies and the tuple
FinishRow(j, s, c, ms) ==
    LET acpl_w == Rat(s.acpl_w, Max2(1, s.n_w))
        acpl_b == Rat(s.acpl_b, Max2(1, s.n_b))
    IN Row(j.game_id, s.n_w + s.n_b, acpl_w, acpl_b,
           AcplToAccuracy(acpl_w), AcplToAccuracy(acpl_b), ms, c.skip, s.notes)

----------------------------------------------------------------------------
(* SpecJob: a pool worker running _analyze_job on the jobs it is handed,   *)
(* one pass of the loop a step.  The worker's engine process is started    *)
(* once (by _init_engine) and is the same for all of its jobs.             *)

\* the jobs a worker may be handed
JobUci == {"e2e4", "h9h9"}
JobInputs == {Job(1, fen, ucis) : fen \in Fens, ucis \in SeqsUpTo(JobUci, MaxPly)}

\* the values tried for SKIP_PLIES and for an int MAX_PLIES
SkipChoices == {0, 1, 2}
MaxChoices == {0, 1, 2}
\* MAX_PLIES is None or an int: `limited` tells which, and None is as falsy as 0
KnobsOf(skip, max, limited) == [skip |-> skip, max |-> max, limited |-> limited]
Knobs ==
    {KnobsOf(skip, max, TRUE) : skip \in SkipChoices, max \in MaxChoices}
    \cup {KnobsOf(skip, 0, FALSE) : skip \in SkipChoices}

NoLog == [last |-> LogEntry(0, "none", TRUE, NoResp, NoResp, 0, 0, 0),
          scored_w |-> 0, scored_b |-> 0, loss_w |-> 0, loss_b |-> 0, started_alive |-> TRUE]

\* the observer's record of a pass: the pass itself and per-side tallies of scored plies
Logged(lg, e) ==
    [lg EXCEPT !.last = e,
               !.scored_w = IF e.what = "scored" /\ e.white THEN @ + 1 ELSE @,
               !.scored_b = IF e.what = "scored" /\ ~e.white THEN @ + 1 ELSE @,
               !.loss_w = IF e.what = "scored" /\ e.white THEN @ + e.loss ELSE @,
               !.loss_b = IF e.what = "scored" /\ ~e.white THEN @ + e.loss ELSE @]

\* where the loop goes after a pass
AfterPass(s, j) == IF s.ctl = "stop" \/ s.ply_idx >= Len(j.uci_moves) THEN "finish" ELSE "loop"

mainIdle ==
    /\ phase = "off" /\ run = 0 /\ env = {} /\ hasTable = FALSE /\ analysis = {}
    /\ pgn = <<>> /\ jobs = <<>> /\ tasks = <<>> /\ worker = <<>> /\ engines = <<>>
    /\ rows = <<>> /\ src = <<>>
    /\ written = 0 /\ lastw = <<>> /\ killedAt = 0

resIdle == rpc = "off" /\ db = <<>> /\ rin = <<>> /\ rout = <<>>

loadIdle == lpc = "off" /\ lpgn = <<>> /\ ltx = <<>>

JobInit ==
    /\ jpc = "idle"
    /\ job = Job(1, "startpos", <<>>)
    /\ cfg \in Knobs
    /\ loc = InitLocals(job, TRUE)
    /\ jlog = NoLog
    /\ result = <<>>
    /\ mainIdle /\ resIdle /\ loadIdle

\* _analyze_job up to the loop: the locals, and chess.Board(job.initial_fen)
JobStart ==
    /\ jpc = "idle"
    /\ \E j \in JobInputs, ms \in MsValues :
         /\ job' = j
         /\ jlog' = [NoLog EXCEPT !.started_alive = loc.alive]
         /\ loc' = InitLocals(j, loc.alive)
         /\ IF ~FenValid(j.initial_fen)
            THEN /\ result' = <<BadFenRow(j, cfg, ms)>>
                 /\ jpc' = "done"
            ELSE /\ result' = <<>>
                 /\ jpc' = AfterPass(loc', j)
    /\ UNCHANGED <<cfg, resVars, loadVars, mainVars>>

\* whether the next pass reaches the first analyse call, and the second one
AsksPre(s, c) ==
    LET ply == s.ply_idx + 1
    IN ~(c.skip # 0 /\ ply <= c.skip) /\ ~(c.max # 0 /\ ply > c.max)
AsksPost(s, u, pre, c) == AsksPre(s, c) /\ ~IsFault(pre) /\ Legal(u)

\* what the engine process may answer to a request
Answers(alive) == IF alive THEN Responses ELSE {Terminated}

\* one pass of the loop over job.uci_moves
JobPly ==
    /\ jpc = "loop"
    /\ LET u == job.uci_moves[loc.ply_idx + 1] IN
       \E pre \in IF AsksPre(loc, cfg) THEN Answers(loc.alive) ELSE {NoResp} :
       \E post \in IF AsksPost(loc, u, pre, cfg) THEN Answers(loc.alive) ELSE {NoResp} :
         LET r == PlyStep(loc, u, pre, post, cfg)
         IN /\ loc' = r.st
            /\ jlog' = Logged(jlog, r.log)
            /\ jpc' = AfterPass(r.st, job)
    /\ UNCHANGED <<job, cfg, result, resVars, loadVars, mainVars>>

\* after the loop: averages, accuracies, the returned tuple
JobFinish ==
    /\ jpc = "finish"
    /\ \E ms \in MsValues : result' = <<FinishRow(job, loc, cfg, ms)>>
    /\ jpc' = "done"
    /\ UNCHANGED <<job, cfg, loc, jlog, resVars, loadVars, mainVars>>

\* the tuple goes back to the parent; the worker waits for its next job
JobReturn ==
    /\ jpc = "done"
    /\ jpc' = "idle"
    /\ job' = Job(1, "startpos", <<>>)
    /\ loc' = InitLocals(job', loc.alive)
    /\ jlog' = NoLog
    /\ result' = <<>>
    /\ UNCHANGED <<cfg, resVars, loadVars, mainVars>>

JobNext == JobStart \/ JobPly \/ JobFinish \/ JobReturn

SpecJob == JobInit /\ [][JobNext]_vars

----------------------------------------------------------------------------
(* chess.db as resolve_game_id reads it: players(id, name), games(id,       *)
(* white_id, black_id, result, date, ply_count) and moves(game_id, ply,    *)
(* uci), the moves of a game kept as the sequence ORDER BY ply gives.      *)

\* a date column or a date_iso value: NULL / None, '' or 'YYYY-MM-DD'
NullDate == [kind |-> "null", y |-> 0, m |-> 0, d |-> 0]
EmptyDate == [kind |-> "empty", y |-> 0, m |-> 0, d |-> 0]
Iso(y, m, d) == [kind |-> "iso", y |-> y, m |-> m, d |-> d]

\* a Date tag split at the dots; a part is a number, "??", "????" or something else
Num(n) == [kind |-> "num", n |-> n]
QQ == [kind |-> "??", n |-> 0]
QQQQ == [kind |-> "????", n |-> 0]
Junk == [kind |-> "junk", n |-> 0]
\* the tag absent (tags.get gives None)
NoDate == <<>>
\* the tag present and empty: "".split(".") is one empty part
EmptyTag == <<[kind |-> "", n |-> 0]>>

\* parse_pgn_date_to_iso(s)
ParsePgnDateToIso(s) ==
    IF s = NoDate \/ s = EmptyTag \/ s[1].kind \in {"??", "????"} THEN NullDate
    ELSE IF s[1].kind # "num" THEN NullDate
    ELSE IF Len(s) < 2 \/ s[2].kind \notin {"num", "??"} THEN NullDate
    ELSE IF Len(s) < 3 \/ s[3].kind \notin {"num", "??"} THEN NullDate
    ELSE Iso(s[1].n,
             IF s[2].kind = "??" THEN 1 ELSE s[2].n,
             IF s[3].kind = "??" THEN 1 ELSE s[3].n)

\* a name tag: absent, or a string with or without blanks around its core
NoTag == [present |-> FALSE, pad |-> FALSE, core |-> ""]
Str(core) == [present |-> TRUE, pad |-> FALSE, core |-> core]
Padded(core) == [present |-> TRUE, pad |-> TRUE, core |-> core]

\* (tags.get(key) or "Unknown").strip()
NameOf(t) == IF ~t.present \/ (t.core = "" /\ ~t.pad) THEN "Unknown" ELSE t.core

\* tags.get("Result") or "*"
ResultOf(t) == IF ~t.present \/ t.core = "" THEN "*" ELSE t.core

\* resolve_player_id(cur, name)
ResolvePlayerId(d, name) ==
    IF \E p \in d.players : p.name = name
    THEN (CHOOSE p \in d.players : p.name = name).id
    ELSE None

RECURSIVE SortedIds(_)
\* ORDER BY id (the least id, then the rest; each bound once it is computed)
SortedIds(S) ==
    IF S = {} THEN <<>>
    ELSE CHOOSE q \in {<<lo>> \o SortedIds(rest) :
                          lo \in {x \in S : \A y \in S : x <= y},
                          rest \in {{x \in S : \E y \in S : y < x}}} : TRUE

Min2(a, b) == IF a <= b THEN a ELSE b

\* the list slice q[:n]
Take(q, n) == SubSeq(q, 1, Min2(n, Len(q)))

\* the two SELECT id FROM games ... ORDER BY id queries
Candidates_NullEquality(d, w_id, b_id, res, date_iso, ply_count) ==
    SortedIds({g.id : g \in
        {g \in d.games :
            /\ g.white_id = w_id /\ g.black_id = b_id /\ g.result = res
            /\ g.ply_count = ply_count
            /\ date_iso.kind # "null" /\ g.date = date_iso}})

Candidates(d, w_id, b_id, res, date_iso, ply_count) ==
    SortedIds({g.id : g \in
        {g \in d.games :
            /\ g.white_id = w_id /\ g.black_id = b_id /\ g.result = res
            /\ g.ply_count = ply_count
            /\ IF date_iso.kind # "null"
               THEN g.date = date_iso
               ELSE g.date.kind \in {"null", "empty"}}})

\* SELECT uci FROM moves WHERE game_id=? ORDER BY ply LIMIT ?
StoredPrefix(d, gid, n) == Take(d.moves[gid], n)

RECURSIVE FirstMatch(_, _, _, _)
\* the loop over cands: the first whose stored prefix equals the probe
FirstMatch(d, cands, probe, i) ==
    IF i > Len(cands) THEN None
    ELSE IF StoredPrefix(d, cands[i], Len(probe)) = probe THEN cands[i]
    ELSE FirstMatch(d, cands, probe, i + 1)

Disambiguate_First(d, cands, uci_moves) == cands[1]

Disambiguate_NoFallback(d, cands, uci_moves) ==
    FirstMatch(d, cands, Take(uci_moves, ProbeLen), 1)

\* "Disambiguate by first 10 UCIs", with the fallback to cands[0]
Disambiguate(d, cands, uci_moves) ==
    LET probe == Take(uci_moves, ProbeLen)
        hit == FirstMatch(d, cands, probe, 1)
    IN IF hit # None THEN hit ELSE cands[1]

PlayersMissing_Both(w_id, b_id) == w_id = None /\ b_id = None

\* if w_id is None or b_id is None
PlayersMissing(w_id, b_id) == w_id = None \/ b_id = None

\* resolve_game_id once cands is fetched: the id it returns (None: not found) and
\* the tables it read
ResolveAmong(d, cands, uci_moves) ==
    IF cands = <<>>
    THEN [gid |-> None, read |-> {"players", "games"}, cands |-> cands]
    ELSE IF Len(cands) = 1
    THEN [gid |-> cands[1], read |-> {"players", "games"}, cands |-> cands]
    ELSE [gid |-> Disambiguate(d, cands, uci_moves),
          read |-> {"players", "games", "moves"}, cands |-> cands]

\* resolve_game_id(conn, tags, uci_moves): the id it returns (None: not found) and
\* the tables it read; it writes none
ResolveGameId(d, tags, uci_moves) ==
    LET white == NameOf(tags.White)
        black == NameOf(tags.Black)
        res == ResultOf(tags.Result)
        date_iso == ParsePgnDateToIso(tags.Date)
        ply_count == Len(uci_moves)
        w_id == ResolvePlayerId(d, white)
        b_id == ResolvePlayerId(d, black)
    IN IF PlayersMissing(w_id, b_id)
       THEN [gid |-> None, read |-> {"players"}, cands |-> <<>>]
       ELSE CHOOSE r \in {ResolveAmong(d, cands, uci_moves) :
                             cands \in {Candidates(d, w_id, b_id, res, date_iso, ply_count)}} :
                TRUE

----------------------------------------------------------------------------
(* SpecResolve: resolve_game_id called on a chess.db that the loader       *)
(* filled: every game's players exist, ply_count is the number of its      *)
(* moves rows, ids count up from 1.                                        *)

Ann == [id |-> 1, name |-> "Ann"]
Bob == [id |-> 2, name |-> "Bob"]
Unknown == [id |-> 3, name |-> "Unknown"]
PlayerTables == {{Ann, Bob}, {Ann, Bob, Unknown}}

StoredDates == {NullDate, Iso(2024, 1, 15)}
StoredResults == {"1-0"}
StoredLines == {q \in SeqsUpTo(LegalUci, ProbeLen + 1) : Len(q) >= ProbeLen - 1}
GameCounts == {0, 1, 2}

GameRow(id, res, date, line) ==
    [id |-> id, white_id |-> Ann.id, black_id |-> Bob.id, result |-> res,
     date |-> date, ply_count |-> Len(line)]

\* the databases with n games
DbsOf(n) ==
    {[players |-> ps,
      games |-> {GameRow(i, sh[i].res, sh[i].date, sh[i].line) : i \in 1..n},
      moves |-> [i \in 1..n |-> sh[i].line]] :
        ps \in PlayerTables,
        sh \in [1..n -> [res : StoredResults, date : StoredDates, line : StoredLines]]}

\* a chess.db whose games of Ann against Bob, all of the same moves, differ in the
\* date column alone: NULL, '' (rows written by another tool: the query accepts
\* both), a full date and the first of a month
DateColumn == <<NullDate, EmptyDate, Iso(2024, 1, 15), Iso(2024, 1, 1)>>
DatedDbs ==
    {[players |-> ps,
      games |-> {GameRow(i, "1-0", DateColumn[i], line) : i \in DOMAIN DateColumn},
      moves |-> [i \in DOMAIN DateColumn |-> line]] :
        ps \in PlayerTables, line \in {<<"e2e4">>, <<"e2e4", "g1f3">>}}

Dbs == UNION {DbsOf(n) : n \in GameCounts} \cup DatedDbs

Tags(w, b, r, dt) == [White |-> w, Black |-> b, Result |-> r, Date |-> dt]

PlayerName(d, id) == (CHOOSE p \in d.players : p.id = id).name

\* the Date tag of a PGN record whose date the loader stored as dt
DateTagOf(dt) == IF dt.kind = "iso" THEN <<Num(dt.y), Num(dt.m), Num(dt.d)>> ELSE NoDate

\* the header tags of the PGN record stored game g was loaded from
TagsOfGame(d, g) ==
    Tags(Str(PlayerName(d, g.white_id)), Str(PlayerName(d, g.black_id)),
         Str(g.result), DateTagOf(g.date))

\* header tags and move lists tried besides those of the stored games
PlayerSlice ==
    {[tags |-> Tags(w, b, Str("1-0"), dt), uci_moves |-> <<"e2e4">>] :
        w \in {NoTag, Str("Ann"), Padded("Ann"), Str("Zed")},
        b \in {NoTag, Str("Bob"), Str("Zed")},
        dt \in {NoDate, <<Num(2024), Num(1), Num(15)>>}}
KeySlice ==
    {[tags |-> Tags(Str("Ann"), Str("Bob"), r, dt), uci_moves |-> line] :
        r \in {Str("1-0"), NoTag},
        dt \in {NoDate, <<Num(2024), Num(1), Num(15)>>, <<Num(2024), QQ, QQ>>},
        line \in StoredLines}

\* Date tags of every shape parse_pgn_date_to_iso tells apart
DateTags ==
    {NoDate, EmptyTag, <<QQQQ, QQ, QQ>>, <<QQ>>, <<QQQQ, Num(1), Num(15)>>,
     <<Junk, Num(1), Num(15)>>, <<Num(2024)>>, <<Num(2024), Num(1)>>,
     <<Num(2024), Junk, Num(15)>>, <<Num(2024), Num(1), Junk>>,
     <<Num(2024), QQQQ, Num(15)>>,
     <<Num(2024), Num(1), Num(15)>>, <<Num(2024), QQ, Num(15)>>,
     <<Num(2024), Num(1), QQ>>, <<Num(2024), QQ, QQ>>, <<Num(2024), Num(1), Num(15), Num(7)>>}
DateSlice ==
    {[tags |-> Tags(Str("Ann"), Str("Bob"), Str("1-0"), dt), uci_moves |-> line] :
        dt \in DateTags, line \in {<<"e2e4">>, <<"e2e4", "g1f3">>}}

NoCall == [tags |-> Tags(NoTag, NoTag, NoTag, NoDate), uci_moves |-> <<>>, own |-> None]
NoAnswer == [gid |-> None, read |-> {}, cands |-> <<>>]

jobIdle ==
    /\ jpc = "off" /\ job = Job(1, "startpos", <<>>) /\ cfg = KnobsOf(0, 0, FALSE)
    /\ loc = InitLocals(job, TRUE) /\ jlog = NoLog /\ result = <<>>

ResolveInit ==
    /\ rpc = "ready"
    /\ db \in Dbs
    /\ rin = NoCall
    /\ rout = NoAnswer
    /\ jobIdle /\ mainIdle /\ loadIdle

\* resolve_game_id on the tags and moves of the PGN record of stored game g
ResolveOwn ==
    /\ rpc = "ready"
    /\ \E g \in db.games :
         /\ rin' = [tags |-> TagsOfGame(db, g), uci_moves |-> db.moves[g.id], own |-> g.id]
         /\ rout' = ResolveGameId(db, rin'.tags, rin'.uci_moves)
    /\ rpc' = "done"
    /\ UNCHANGED <<db, loadVars, jobVars, mainVars>>

\* resolve_game_id on other tags and moves
ResolveAny ==
    /\ rpc = "ready"
    /\ \E in \in PlayerSlice \cup KeySlice \cup DateSlice :
         /\ rin' = [tags |-> in.tags, uci_moves |-> in.uci_moves, own |-> None]
         /\ rout' = ResolveGameId(db, in.tags, in.uci_moves)
    /\ rpc' = "done"
    /\ UNCHANGED <<db, loadVars, jobVars, mainVars>>

\* the caller takes the answer; the database is as it was
ResolveReturn ==
    /\ rpc = "done"
    /\ rpc' = "ready"
    /\ rin' = NoCall
    /\ rout' = NoAnswer
    /\ UNCHANGED <<db, loadVars, jobVars, mainVars>>

ResolveNext == ResolveOwn \/ ResolveAny \/ ResolveReturn

SpecResolve == ResolveInit /\ [][ResolveNext]_vars

----------------------------------------------------------------------------
(* SpecLoad: process_pgn of matrix.py fills an empty chess.db from a PGN   *)
(* file, then resolve_game_id is called, as scan_pgn_and_resolve_jobs      *)
(* calls it, with the tags and moves of the records that were stored.      *)
(* SCHEMA_SQL of matrix.py names a column of moves `check`, which SQLite   *)
(* does not accept, while insert_moves writes `is_check`: the tables are   *)
(* taken as get_or_create_*, insert_game and insert_moves write them, with *)
(* the constraints SCHEMA_SQL puts on players, events and games.           *)

\* the days of month m of year y in the calendar of dt.date
DaysInMonth(y, m) ==
    LET leap == (y % 4 = 0 /\ y % 100 # 0) \/ y % 400 = 0
    IN IF m \in {4, 6, 9, 11} THEN 30
       ELSE IF m = 2 THEN (IF leap THEN 29 ELSE 28)
       ELSE 31

\* dt.date(y, m, d) returns (it raises ValueError otherwise)
DateExists(y, m, d) ==
    /\ y >= 1 /\ y <= 9999
    /\ m >= 1 /\ m <= 12
    /\ d >= 1 /\ d <= DaysInMonth(y, m)

\* parse_pgn_date(s) of the loader
ParsePgnDate(s) ==
    IF s = NoDate \/ s = EmptyTag \/ s[1].kind \in {"??", "????"} THEN NullDate
    ELSE IF s[1].kind # "num" THEN NullDate
    ELSE IF Len(s) < 2 \/ s[2].kind \notin {"num", "??"} THEN NullDate
    ELSE IF Len(s) < 3 \/ s[3].kind \notin {"num", "??"} THEN NullDate
    ELSE LET y == s[1].n
             m == IF s[2].kind = "??" THEN 1 ELSE s[2].n
             d == IF s[3].kind = "??" THEN 1 ELSE s[3].n
         IN IF DateExists(y, m, d) THEN Iso(y, m, d) ELSE NullDate

\* cur.lastrowid of an INSERT into a table with an AUTOINCREMENT id
NextId(table) ==
    IF table = {} THEN 1
    ELSE (CHOOSE r \in table : \A q \in table : q.id <= r.id).id + 1

\* get_or_create_player_id(cur, name): the id, and the players table after it
GetOrCreatePlayerId(players, name) ==
    IF \E p \in players : p.name = name
    THEN [id |-> (CHOOSE p \in players : p.name = name).id, players |-> players]
    ELSE [id |-> NextId(players),
          players |-> players \cup {[id |-> NextId(players), name |-> name]}]

\* get_or_create_event_id(cur, name, site, date_iso): None for no name, the id of
\* the row with COALESCE-equal site and start_date, or a new row, whose INSERT fails
\* (site and start_date are NOT NULL) when the site is None or the date is None
GetOrCreateEventId(events, name, site, date_iso) ==
    IF ~name.present \/ name.core = ""
    THEN [ok |-> TRUE, id |-> None, events |-> events]
    ELSE LET same == {e \in events :
                        /\ e.name = name.core
                        /\ e.site = (IF site.present THEN site.core ELSE "")
                        /\ e.start_date = (IF date_iso = NullDate THEN EmptyDate
                                           ELSE date_iso)}
         IN IF same # {}
            THEN [ok |-> TRUE, id |-> (CHOOSE e \in same : TRUE).id, events |-> events]
            ELSE IF ~site.present \/ date_iso = NullDate
            THEN [ok |-> FALSE, id |-> None, events |-> events]
            ELSE [ok |-> TRUE, id |-> NextId(events),
                  events |-> events \cup {[id |-> NextId(events), name |-> name.core,
                                           site |-> site.core, start_date |-> date_iso]}]

\* result TEXT NOT NULL CHECK (result IN ('1-0','0-1','1/2-1/2','*'))
ResultAllowed(res) == res \in {"1-0", "0-1", "1/2-1/2", "*"}

\* a record of the PGN file as process_pgn reads it
LoadRecord(tags, event, site, ucis) ==
    [tags |-> tags, event |-> event, site |-> site, uci_moves |-> ucis]

\* the columns insert_game writes that the model follows
LoadedRow(id, event_id, white_id, black_id, res, date, ply) ==
    [id |-> id, event_id |-> event_id, white_id |-> white_id, black_id |-> black_id,
     result |-> res, date |-> date, ply_count |-> ply]

\* the connection of process_pgn on a new chess.db
EmptyTx == [players |-> {}, events |-> {}, games |-> {}, moves |-> <<>>, count |-> 0]

\* one pass of the while loop of process_pgn, up to count += 1: the connection's
\* view after it, or ok = FALSE when a statement raised
ProcessGame(tx, g) ==
    LET white == NameOf(g.tags.White)
        black == NameOf(g.tags.Black)
        res == ResultOf(g.tags.Result)
        date_iso == ParsePgnDate(g.tags.Date)
        wp == GetOrCreatePlayerId(tx.players, white)
        bp == GetOrCreatePlayerId(wp.players, black)
        ev == GetOrCreateEventId(tx.events, g.event, g.site, date_iso)
        game_id == NextId(tx.games)
    IN IF ~ev.ok \/ ~ResultAllowed(res)
       THEN [ok |-> FALSE, tx |-> tx]
       ELSE [ok |-> TRUE,
             tx |-> [players |-> bp.players,
                     events |-> ev.events,
                     games |-> tx.games \cup
                               {LoadedRow(game_id, ev.id, wp.id, bp.id, res, date_iso,
                                          Len(g.uci_moves))},
                     moves |-> Append(tx.moves, g.uci_moves),
                     count |-> tx.count + 1]]

\* conn.commit(): what the connection sees becomes the database
Committed(tx) ==
    [players |-> tx.players, events |-> tx.events, games |-> tx.games, moves |-> tx.moves]

\* the connection's view once its uncommitted rows are gone
RolledBack(d, n) ==
    [players |-> d.players, events |-> d.events, games |-> d.games, moves |-> d.moves,
     count |-> n]

\* the Date tags of the records loaded: absent, a day, a year, and two that name no
\* day of the calendar
LoadDates ==
    {NoDate, <<Num(2024), Num(1), Num(15)>>, <<Num(2024), QQ, QQ>>,
     <<Num(2024), Num(13), Num(1)>>, <<Num(2024), Num(2), Num(30)>>}
\* the records: with or without Event and Site tags, with or without moves
LoadRecords ==
    {LoadRecord(Tags(Str("Ann"), Str("Bob"), Str("1-0"), dt), ev.event, ev.site, line) :
        dt \in LoadDates,
        ev \in {[event |-> NoTag, site |-> NoTag],
                [event |-> Str("Open"), site |-> Str("Rome")]},
        line \in {<<>>, <<"e2e4">>}}
LoadFiles == {f \in SeqsUpTo(LoadRecords, MaxGames) : f # <<>>}

LoadInit ==
    /\ lpc = "load"
    /\ lpgn \in LoadFiles
    /\ ltx = EmptyTx
    /\ db = Committed(EmptyTx)
    /\ rpc = "ready" /\ rin = NoCall /\ rout = NoAnswer
    /\ jobIdle /\ mainIdle

\* process_pgn handles the next game of the file, committing every CommitEvery games;
\* an exception ends it with the rows since the last commit lost
LoadGame ==
    /\ lpc = "load"
    /\ ltx.count < Len(lpgn)
    /\ \E r \in {ProcessGame(ltx, lpgn[ltx.count + 1])} :
         IF r.ok
         THEN /\ ltx' = r.tx
              /\ db' = IF r.tx.count % CommitEvery = 0 THEN Committed(r.tx) ELSE db
              /\ lpc' = "load"
         ELSE /\ ltx' = RolledBack(db, ltx.count)
              /\ lpc' = "crashed"
              /\ db' = db
    /\ UNCHANGED <<lpgn, rpc, rin, rout, jobVars, mainVars>>

\* the file is read through: the final conn.commit()
LoadEnd ==
    /\ lpc = "load"
    /\ ltx.count = Len(lpgn)
    /\ db' = Committed(ltx)
    /\ lpc' = "loaded"
    /\ UNCHANGED <<lpgn, ltx, rpc, rin, rout, jobVars, mainVars>>

\* scan_pgn_and_resolve_jobs reaches a record of the same file that has moves and
\* that the loader stored (the i-th record of the file is the game with id i)
ResolveLoaded ==
    /\ lpc \in {"loaded", "crashed"}
    /\ rpc = "ready"
    /\ \E g \in db.games :
         /\ lpgn[g.id].uci_moves # <<>>
         /\ rin' = [tags |-> lpgn[g.id].tags, uci_moves |-> lpgn[g.id].uci_moves,
                    own |-> g.id]
         /\ rout' = ResolveGameId(db, rin'.tags, rin'.uci_moves)
    /\ rpc' = "done"
    /\ UNCHANGED <<db, loadVars, jobVars, mainVars>>

LoadNext == LoadGame \/ LoadEnd \/ ResolveLoaded \/ ResolveReturn

SpecLoad == LoadInit /\ [][LoadNext]_vars

----------------------------------------------------------------------------
(* The analysis table and upsert_analysis_batch *)

UpsertRow_KeepOld(table, r) ==
    IF \E old \in table : old.game_id = r.game_id THEN table ELSE table \cup {r}

\* one INSERT ... ON CONFLICT(game_id) DO UPDATE SET <the ten other columns>
UpsertRow(table, r) ==
    IF \E old \in table : old.game_id = r.game_id
    THEN {IF old.game_id = r.game_id
          THEN [old EXCEPT !.plies_analyzed = r.plies_analyzed,
                           !.acpl_white = r.acpl_white, !.acpl_black = r.acpl_black,
                           !.accuracy_white = r.accuracy_white,
                           !.accuracy_black = r.accuracy_black,
                           !.ms_total = r.ms_total, !.engine = r.engine,
                           !.movetime_ms = r.movetime_ms,
                           !.skipped_plies = r.skipped_plies, !.notes = r.notes]
          ELSE old : old \in table}
    ELSE table \cup {r}

RECURSIVE ExecuteMany(_, _, _)
\* cur.executemany: the rows in list order
ExecuteMany(table, batch, i) ==
    IF i > Len(batch) THEN table
    ELSE ExecuteMany(UpsertRow(table, batch[i]), batch, i + 1)

\* FOREIGN KEY(game_id) REFERENCES games(id); SCHEMA_SQL, which db_connect_rw runs
\* on the connection, starts with PRAGMA foreign_keys = ON
ForeignKeysHold(d, batch) ==
    \A i \in 1..Len(batch) : \E g \in d.games : g.id = batch[i].game_id

\* how many rows of the batch executemany inserts before one fails its constraint
RowsBeforeFailure(d, batch) ==
    IF ForeignKeysHold(d, batch) THEN Len(batch)
    ELSE (CHOOSE i \in 1..Len(batch) :
              /\ ~ForeignKeysHold(d, <<batch[i]>>)
              /\ ForeignKeysHold(d, SubSeq(batch, 1, i - 1))) - 1

\* the table as the connection's open transaction has it when executemany returns
\* or raises
Pending(d, table, batch) ==
    ExecuteMany(table, SubSeq(batch, 1, RowsBeforeFailure(d, batch)), 1)

UpsertAnalysisBatch_Partial(d, table, batch) ==
    IF batch = <<>> THEN [ok |-> TRUE, table |-> table]
    ELSE [ok |-> ForeignKeysHold(d, batch), table |-> Pending(d, table, batch)]

\* upsert_analysis_batch(rows): the table after it, and whether it committed.  A
\* constraint failure raises out of executemany: con.commit() is not reached, and
\* the transaction the connection had open is rolled back when the connection goes
\* away, so the rows inserted before the failing one do not stay
UpsertAnalysisBatch(d, table, batch) ==
    IF batch = <<>> THEN [ok |-> TRUE, table |-> table]
    ELSE IF ~ForeignKeysHold(d, batch) THEN [ok |-> FALSE, table |-> table]
    ELSE [ok |-> TRUE, table |-> Pending(d, table, batch)]

RECURSIVE LastWritten(_, _, _)
\* per game_id, the last two tuples that committed batches wrote, oldest first
LastWritten(lw, batch, i) ==
    IF i > Len(batch) THEN lw
    ELSE LET g == batch[i].game_id
             now == IF lw[g] = <<>> THEN <<batch[i]>> ELSE <<lw[g][Len(lw[g])], batch[i]>>
         IN LastWritten([lw EXCEPT ![g] = now], batch, i + 1)

----------------------------------------------------------------------------
(* Spec: main().  chess.db holds three games of Ann against Bob that share *)
(* the candidate key; the PGN file holds up to MaxGames records.           *)

PoolLines == <<(<<"e2e4", "g1f3">>), (<<"g1f3", "e2e4">>), (<<"g1f3", "g1f3">>)>>
PoolDb ==
    [players |-> {Ann, Bob},
     games |-> {GameRow(i, "1-0", Iso(2024, 1, 15), PoolLines[i]) : i \in 1..3},
     moves |-> [i \in 1..3 |-> PoolLines[i]]]

\* a PGN record: its header tags and its mainline
PgnGame(tags, ucis) == [tags |-> tags, uci_moves |-> ucis]
\* the records of the three stored games and one of a player chess.db does not know
StoredRecord(g) == PgnGame(TagsOfGame(PoolDb, g), PoolDb.moves[g.id])
Stranger == PgnGame(Tags(Str("Zed"), Str("Bob"), Str("1-0"), NoDate), <<"e2e4">>)
PgnRecords == {StoredRecord(g) : g \in PoolDb.games} \cup {Stranger}
PgnFiles == SeqsUpTo(PgnRecords, MaxGames)

RECURSIVE ScanFrom(_, _, _)
\* scan_pgn_and_resolve_jobs: a job for every game with moves that resolves
ScanFrom(file, d, i) ==
    IF i > Len(file) THEN <<>>
    ELSE LET g == file[i]
             gid == ResolveGameId(d, g.tags, g.uci_moves).gid
         IN (IF g.uci_moves # <<>> /\ gid # None
             THEN <<Job(gid, "startpos", g.uci_moves)>> ELSE <<>>)
            \o ScanFrom(file, d, i + 1)
ScanPgnAndResolveJobs(file, d) == ScanFrom(file, d, 1)

\* SKIP_PLIES = 0, MAX_PLIES = None
SourceCfg == KnobsOf(0, 0, FALSE)

\* what the engine does during one job in the pool: it answers every request with
\* `pre` before a move and `post` after it, except that the first request of ply
\* failAt raises `fault` (failAt = 0: no request fails)
Script(failAt, fault) == [pre |-> Cp(0), post |-> Cp(0), failAt |-> failAt, fault |-> fault]
PoolScripts == {Script(0, Terminated), Script(2, Terminated), Script(1, ProtoError)}
PoolMs == {5}

RECURSIVE RunLoop(_, _, _, _)
RunLoop(s, j, script, c) ==
    IF AfterPass(s, j) = "finish" THEN s
    ELSE LET ply == s.ply_idx + 1
             pre == IF script.failAt = ply THEN script.fault ELSE script.pre
         IN CHOOSE r \in {RunLoop(t, j, script, c) :
                             t \in {PlyStep(s, j.uci_moves[ply], pre, script.post, c).st}} :
                TRUE

AnalyzeJob_NoNotes(j, alive, script, c, ms) ==
    IF ~FenValid(j.initial_fen)
    THEN [row |-> [BadFenRow(j, c, ms) EXCEPT !.notes = NoNote], alive |-> alive]
    ELSE CHOOSE a \in {[row |-> [FinishRow(j, s, c, ms) EXCEPT !.notes = NoNote],
                        alive |-> s.alive] :
                          s \in {RunLoop(InitLocals(j, alive), j, script, c)}} : TRUE

\* _analyze_job(job) in a worker whose engine is alive or not: the tuple and the engine
AnalyzeJob(j, alive, script, c, ms) ==
    IF ~FenValid(j.initial_fen)
    THEN [row |-> BadFenRow(j, c, ms), alive |-> alive]
    ELSE CHOOSE a \in {[row |-> FinishRow(j, s, c, ms), alive |-> s.alive] :
                          s \in {RunLoop(InitLocals(j, alive), j, script, c)}} : TRUE

RECURSIVE Chunks(_, _)
\* imap_unordered(..., chunksize=2): the job list cut into tasks of two
Chunks(js, size) ==
    IF Len(js) <= size THEN (IF js = <<>> THEN <<>> ELSE <<js>>)
    ELSE <<SubSeq(js, 1, size)>> \o Chunks(SubSeq(js, size + 1, Len(js)), size)

RECURSIVE InsertSorted(_, _)
InsertSorted(q, r) ==
    IF q = <<>> THEN <<r>>
    ELSE IF q[Len(q)].game_id <= r.game_id THEN Append(q, r)
    ELSE Append(InsertSorted(SubSeq(q, 1, Len(q) - 1), r), q[Len(q)])
RECURSIVE SortByGameId(_)
\* rows.sort(key=lambda r: r[0]): stable
SortByGameId(q) ==
    IF q = <<>> THEN <<>>
    ELSE InsertSorted(SortByGameId(SubSeq(q, 1, Len(q) - 1)), q[Len(q)])

\* the pairs (position of the job, its tuple) in the order of SortByGameId
Tagged(rs, js) == [k \in 1..Len(rs) |-> [game_id |-> rs[k].game_id, job |-> js[k], row |-> rs[k]]]
RowsIn(q) == [k \in 1..Len(q) |-> q[k].row]
JobsIn(q) == [k \in 1..Len(q) |-> q[k].job]

WorkerIds == {1, 2}
Files == {"engine", "pgn", "db"}
\* a pool worker: its process, the engine its _engine handle refers to (None before
\* _init_engine), the rest of its task, and the results of the task so far
NoWorker == [proc |-> "none", engine |-> None, chunk |-> <<>>, out |-> <<>>]
NothingWritten == [g \in 1..3 |-> <<>>]
\* an engine process: the worker that started it, and whether it still runs
Engine(w) == [owner |-> w, state |-> "running"]
EngineAlive(w) == engines[worker[w].engine].state = "running"

Init ==
    /\ phase = "start" /\ run = 1
    /\ env \in {Files} \cup {Files \ {f} : f \in Files}
    /\ hasTable = FALSE /\ analysis = {}
    /\ db = PoolDb
    /\ pgn \in PgnFiles
    /\ jobs = <<>> /\ tasks = <<>>
    /\ worker = [w \in WorkerIds |-> NoWorker]
    /\ engines = <<>>
    /\ rows = <<>> /\ src = <<>> /\ written = 0
    /\ lastw = NothingWritten /\ killedAt = 0
    /\ jobIdle /\ loadIdle
    /\ rpc = "off" /\ rin = NoCall /\ rout = NoAnswer

MainCheck_TableFirst ==
    /\ phase = "start"
    /\ hasTable' = TRUE
    /\ phase' = IF env # Files THEN "exit1" ELSE "scan"
    /\ UNCHANGED <<run, env, analysis, pgn, jobs, tasks, worker, engines, rows, src,
                   written, lastw, killedAt, db, rpc, rin, rout, loadVars, jobVars>>

\* main(): the three existence checks, then db_connect_rw creates the table
MainCheck ==
    /\ phase = "start"
    /\ IF env # Files
       THEN phase' = "exit1" /\ UNCHANGED hasTable
       ELSE phase' = "scan" /\ hasTable' = TRUE
    /\ UNCHANGED <<run, env, analysis, pgn, jobs, tasks, worker, engines, rows, src,
                   written, lastw, killedAt, db, rpc, rin, rout, loadVars, jobVars>>

\* main(): build the jobs; return when there is none
MainScan ==
    /\ phase = "scan"
    /\ \E js \in {ScanPgnAndResolveJobs(pgn, db)} :
         /\ jobs' = js
         /\ phase' = IF js = <<>> THEN "done" ELSE "pool"
    /\ UNCHANGED <<run, env, hasTable, analysis, pgn, tasks, worker, engines, rows, src,
                   written, lastw, killedAt, db, rpc, rin, rout, loadVars, jobVars>>

MainPool_SharedEngine ==
    /\ phase = "pool"
    /\ engines' = <<Engine(1)>>
    /\ worker' = [w \in WorkerIds |-> [NoWorker EXCEPT !.proc = "up", !.engine = 1]]
    /\ tasks' = Chunks([i \in 1..Len(jobs) |-> i], 2)
    /\ phase' = "collect"
    /\ UNCHANGED <<run, env, hasTable, analysis, pgn, jobs, rows, src, written,
                   lastw, killedAt, db, rpc, rin, rout, loadVars, jobVars>>

\* Pool(processes=WORKERS, initializer=_init_engine): every worker process starts an
\* engine of its own; imap_unordered(chunksize=2) cuts the job list into tasks
MainPool ==
    /\ phase = "pool"
    /\ engines' = [w \in WorkerIds |-> Engine(w)]
    /\ worker' = [w \in WorkerIds |-> [NoWorker EXCEPT !.proc = "up", !.engine = w]]
    /\ tasks' = Chunks([i \in 1..Len(jobs) |-> i], 2)
    /\ phase' = "collect"
    /\ UNCHANGED <<run, env, hasTable, analysis, pgn, jobs, rows, src, written,
                   lastw, killedAt, db, rpc, rin, rout, loadVars, jobVars>>

\* an idle worker takes the next task
WorkerTake(w) ==
    /\ phase = "collect"
    /\ worker[w].proc = "up" /\ worker[w].chunk = <<>>
    /\ tasks # <<>>
    /\ worker' = [worker EXCEPT ![w].chunk = Head(tasks)]
    /\ tasks' = Tail(tasks)
    /\ UNCHANGED <<phase, run, env, hasTable, analysis, pgn, jobs, engines, rows, src,
                   written, lastw, killedAt, db, rpc, rin, rout, loadVars, jobVars>>

\* the worker runs _analyze_job on the next job of its task; after the task's last
\* job the task's tuples go to the parent, whose loop appends them to rows
WorkerAnalyze(w) ==
    /\ phase = "collect"
    /\ worker[w].chunk # <<>>
    /\ \E script \in PoolScripts, ms \in PoolMs :
       \E a \in {AnalyzeJob(jobs[Head(worker[w].chunk)], EngineAlive(w), script,
                            SourceCfg, ms)} :
         LET out == Append(worker[w].out, [job |-> Head(worker[w].chunk), row |-> a.row])
             last == Len(worker[w].chunk) = 1
         IN /\ worker' = [worker EXCEPT ![w].chunk = Tail(@),
                                        ![w].out = IF last THEN <<>> ELSE out]
            /\ engines' = [engines EXCEPT ![worker[w].engine].state =
                                              IF a.alive THEN @ ELSE "dead"]
            /\ rows' = IF last THEN rows \o RowsIn(out) ELSE rows
            /\ src' = IF last THEN src \o JobsIn(out) ELSE src
    /\ UNCHANGED <<phase, run, env, hasTable, analysis, pgn, jobs, tasks, written,
                   lastw, killedAt, db, rpc, rin, rout, loadVars, jobVars>>

\* every tuple is in: leaving the with block terminates the worker processes (nothing
\* is sent to their engines), then rows.sort
MainSort ==
    /\ phase = "collect"
    /\ Len(rows) = Len(jobs)
    /\ worker' = [w \in WorkerIds |-> [worker[w] EXCEPT !.proc = "ended"]]
    /\ \E sorted \in {SortByGameId(Tagged(rows, src))} :
         rows' = RowsIn(sorted) /\ src' = JobsIn(sorted)
    /\ written' = 0
    /\ phase' = "write"
    /\ UNCHANGED <<run, env, hasTable, analysis, pgn, jobs, tasks, engines,
                   lastw, killedAt, db, rpc, rin, rout, loadVars, jobVars>>

MainBatch_SkipsRow ==
    /\ phase = "write"
    /\ written < Len(rows)
    /\ LET batch == SubSeq(rows, written + 1, Min2(written + BATCH, Len(rows)))
           up == UpsertAnalysisBatch(db, analysis, batch)
       IN /\ analysis' = up.table
          /\ lastw' = LastWritten(lastw, batch, 1)
          /\ written' = Min2(written + Len(batch) + 1, Len(rows))
          /\ phase' = IF written' >= Len(rows) THEN "done" ELSE "write"
    /\ UNCHANGED <<run, env, hasTable, pgn, jobs, tasks, worker, engines, rows, src,
                   killedAt, db, rpc, rin, rout, loadVars, jobVars>>

\* one pass of the batch loop: upsert_analysis_batch(rows[i:i+BATCH]); an exception
\* it raises ends main()
MainBatch ==
    /\ phase = "write"
    /\ written < Len(rows)
    /\ LET batch == SubSeq(rows, written + 1, Min2(written + BATCH, Len(rows)))
           up == UpsertAnalysisBatch(db, analysis, batch)
       IN IF up.ok
          THEN /\ analysis' = up.table
               /\ lastw' = LastWritten(lastw, batch, 1)
               /\ written' = written + Len(batch)
               /\ phase' = IF written' >= Len(rows) THEN "done" ELSE "write"
          ELSE /\ phase' = "crashed"
               /\ analysis' = up.table
               /\ UNCHANGED <<lastw, written>>
    /\ UNCHANGED <<run, env, hasTable, pgn, jobs, tasks, worker, engines, rows, src,
                   killedAt, db, rpc, rin, rout, loadVars, jobVars>>

\* once the program has exited, an engine it left running may end by itself (its
\* input pipe is closed) or stay
EngineExits ==
    /\ phase \in {"done", "crashed"}
    /\ \E e \in DOMAIN engines :
         /\ engines[e].state = "running"
         /\ engines' = [engines EXCEPT ![e].state = "dead"]
    /\ UNCHANGED <<phase, run, env, hasTable, analysis, pgn, jobs, tasks, worker, rows,
                   src, written, lastw, killedAt, db, rpc, rin, rout, loadVars, jobVars>>

\* chess.db is a file other programs write too: while main() is in its batch loop a
\* games row that has no analysis row yet is deleted on another connection (the
\* clean-up of duplicates generate_hashes.py asks for).  Before the batch loop a
\* deletion after the scan has the same effect as one at the loop's start.
GameDeleted ==
    /\ phase = "write"
    /\ db = PoolDb
    /\ \E g \in db.games :
         /\ ~\E r \in analysis : r.game_id = g.id
         /\ db' = [db EXCEPT !.games = @ \ {g}]
    /\ UNCHANGED <<phase, run, env, hasTable, analysis, pgn, jobs, tasks, worker, engines,
                   rows, src, written, lastw, killedAt, rpc, rin, rout, loadVars, jobVars>>

\* the first run is killed: what is in memory is gone, what was committed stays
Kill ==
    /\ phase \in {"scan", "pool", "collect", "write"}
    /\ run = 1
    /\ phase' = "killed"
    /\ killedAt' = written
    /\ jobs' = <<>> /\ tasks' = <<>> /\ rows' = <<>> /\ src' = <<>> /\ written' = 0
    /\ worker' = [w \in WorkerIds |->
                    [NoWorker EXCEPT !.proc = IF worker[w].proc = "none" THEN "none"
                                              ELSE "ended"]]
    /\ engines' = <<>>
    /\ UNCHANGED <<run, env, hasTable, analysis, pgn, lastw, db, rpc, rin, rout, loadVars, jobVars>>

\* after the kill the program is started again on the same files
Rerun ==
    /\ phase = "killed"
    /\ run' = run + 1
    /\ phase' = "start"
    /\ worker' = [w \in WorkerIds |-> NoWorker]
    /\ UNCHANGED <<env, hasTable, analysis, pgn, jobs, tasks, engines, rows, src, written,
                   lastw, killedAt, db, rpc, rin, rout, loadVars, jobVars>>

\* the steps of the program and of the processes it starts, and its being killed
Program ==
    \/ MainCheck \/ MainScan \/ MainPool
    \/ \E w \in WorkerIds : WorkerTake(w) \/ WorkerAnalyze(w)
    \/ MainSort \/ MainBatch \/ EngineExits \/ Kill \/ Rerun

Next == Program \/ GameDeleted

Spec == Init /\ [][Next]_vars

\* the parent and every pool worker are processes the operating system keeps running:
\* a step of the program that stays possible is taken; a kill may or may not come.
\* The run starts with its three files in place and a PGN of MaxGames records: the
\* stored games in the order of their ids, then the stranger's.  Nobody else writes
\* chess.db while the program runs.
FairPgn ==
    [i \in 1..MaxGames |->
        IF i <= Cardinality(PoolDb.games)
        THEN StoredRecord(CHOOSE g \in PoolDb.games : g.id = i) ELSE Stranger]
FairInit == Init /\ env = Files /\ pgn = FairPgn
FairSpec ==
    /\ FairInit /\ [][Program]_vars
    /\ WF_vars(MainCheck) /\ WF_vars(MainScan) /\ WF_vars(MainPool)
    /\ \A w \in WorkerIds : WF_vars(WorkerTake(w)) /\ WF_vars(WorkerAnalyze(w))
    /\ WF_vars(MainSort) /\ WF_vars(MainBatch)

----------------------------------------------------------------------------
(* Claims about _analyze_job, checked under SpecJob *)

\* the returned tuple, once there is one
Returned == result # <<>>
Res == result[1]

\* the clamped score from the side to move's point of view that an engine answer
\* stands for: mate n > 0 is for the side to move, mate n <= 0 against it
TrueStm(s) ==
    CASE s.kind = "cp" -> s.v
      [] s.kind = "mate" -> IF s.v > 0 THEN MATE_SCORE ELSE 0 - MATE_SCORE
      [] OTHER -> MATE_SCORE

\* C3: when an analyse call raises after k plies of the game were fully scored, the
\* returned tuple has plies_analyzed = k (fewer than the game's plies), a note, and
\* each side's acpl is the sum of the losses of that side's scored plies over their
\* number: the scored plies are kept
C3_PartialFault ==
    (Returned /\ jlog.last.what = "fault") =>
        /\ Res.plies_analyzed = jlog.scored_w + jlog.scored_b
        /\ Res.plies_analyzed < Len(job.uci_moves)
        /\ Res.notes # NoNote
        /\ Res.acpl_white = Rat(jlog.loss_w, Max2(1, jlog.scored_w))
        /\ Res.acpl_black = Rat(jlog.loss_b, Max2(1, jlog.scored_b))

\* a fault at the third ply of a game whose first two plies were scored with a loss
C3_Witness ==
    /\ Returned /\ jlog.last.what = "fault" /\ jlog.last.ply = 3
    /\ jlog.scored_w = 1 /\ jlog.scored_b = 1
    /\ jlog.loss_w > 0 /\ jlog.loss_b > 0
    /\ Res.plies_analyzed = 2

\* C4: every job a worker runs finds the worker's engine process usable, also after
\* the engine terminated or failed in an earlier job of that worker
C4_EngineUsableForLaterJobs ==
    jpc \in {"loop", "finish", "done"} => jlog.started_alive

\* C8: a mate answer at any distance counts, from the side to move's point of view,
\* as exactly +100000 when the mate is for the side to move and -100000 when it is
\* against it, before the move (s_best_stm) and after it (s_after_stm), whoever moves
C8_MateClamped ==
    jlog.last.what = "scored" =>
        /\ IsMate(jlog.last.pre) => jlog.last.best = TrueStm(jlog.last.pre)
        /\ IsMate(jlog.last.post) => 0 - jlog.last.after = TrueStm(jlog.last.post)

\* C9: the loss added for a scored ply is max(0, best - after), best and after being
\* the scores before and after the move from the mover's point of view
C9_LossIsMoverSwing ==
    jlog.last.what = "scored" =>
        LET best == TrueStm(jlog.last.pre)
            after == 0 - TrueStm(jlog.last.post)
        IN /\ jlog.last.loss = Max2(0, best - after)
           /\ jlog.last.loss >= 0
           /\ (after >= best => jlog.last.loss = 0)

\* C10: every returned tuple has both accuracies in [0, 100] (hundredths: 0..10000)
\* and both acpl values >= 0; an acpl of 0 maps to 100 and an acpl >= 40000 to 0
C10_AccuracyBounds ==
    /\ AcplToAccuracy(Rat(0, 1)) = 10000
    /\ AcplToAccuracy(Rat(40000, 1)) = 0
    /\ Returned =>
         /\ Res.accuracy_white \in 0..10000 /\ Res.accuracy_black \in 0..10000
         /\ Res.acpl_white.num >= 0 /\ Res.acpl_white.den > 0
         /\ Res.acpl_black.num >= 0 /\ Res.acpl_black.den > 0
         /\ (Res.acpl_white.num >= 40000 * Res.acpl_white.den => Res.accuracy_white = 0)
         /\ (Res.acpl_black.num >= 40000 * Res.acpl_black.den => Res.accuracy_black = 0)
         /\ (Res.acpl_white.num = 0 => Res.accuracy_white = 10000)
         /\ (Res.acpl_black.num = 0 => Res.accuracy_black = 10000)

\* a tuple with White's acpl past the saturation point and Black's strictly inside
C10_Witness ==
    /\ Returned
    /\ Res.acpl_white.num >= 40000 * Res.acpl_white.den /\ Res.accuracy_white = 0
    /\ Res.acpl_black.num > 0 /\ Res.accuracy_black \in 1..9999

\* C11: a side none of whose plies was scored has average loss exactly 0 and accuracy
\* exactly 100 (10000 hundredths) in the returned tuple, and both averages are
\* well-defined fractions (no zero denominator)
C11_EmptySideSafety ==
    Returned =>
        /\ Res.acpl_white.den >= 1 /\ Res.acpl_black.den >= 1
        /\ jlog.scored_w = 0 =>
             Res.acpl_white = Rat(0, 1) /\ Res.accuracy_white = 10000
        /\ jlog.scored_b = 0 =>
             Res.acpl_black = Rat(0, 1) /\ Res.accuracy_black = 10000

\* a one-sided game: nothing scored for White while Black's scored plies lost material
C11_Witness ==
    /\ Returned
    /\ jlog.scored_w = 0 /\ jlog.scored_b > 0 /\ jlog.loss_b > 0
    /\ Res.acpl_white = Rat(0, 1) /\ Res.accuracy_white = 10000
    /\ Res.accuracy_black < 10000

\* C18: in the returned tuple each side's average loss is the sum of the losses of
\* that side's scored plies over the number of that side's scored plies (0 when it has
\* none), and plies_analyzed is the number of scored plies of both sides
C18_AcplAggregation ==
    Returned =>
        /\ Res.acpl_white = Rat(jlog.loss_w, Max2(1, jlog.scored_w))
        /\ Res.acpl_black = Rat(jlog.loss_b, Max2(1, jlog.scored_b))
        /\ Res.plies_analyzed = jlog.scored_w + jlog.scored_b

\* two White plies and one Black ply scored, both sides with losses: the averages over
\* the side's count, the total count and the other side's count all differ
C18_Witness ==
    /\ Returned
    /\ jlog.scored_w = 2 /\ jlog.scored_b = 1 /\ jlog.loss_w > 0 /\ jlog.loss_b > 0
    /\ Res.acpl_white # Rat(jlog.loss_w, 3) /\ Res.acpl_white # Rat(jlog.loss_w, 1)

\* the side to move when ply number `ply` of a game from `fen` is played
SideAt(fen, ply) == IF (ply - 1) % 2 = 0 THEN FenTurn(fen) ELSE Other(FenTurn(fen))

\* C19: a scored ply has an index above SKIP_PLIES and, when MAX_PLIES is an int, not
\* above MAX_PLIES; it is attributed to the side to move after all plies before it,
\* skipped ones included, were played; and plies_analyzed is at most the number of moves
C19_SkipAndTruncate ==
    /\ jlog.last.what = "scored" =>
         /\ jlog.last.ply > cfg.skip
         /\ cfg.limited => jlog.last.ply <= cfg.max
         /\ jlog.last.white = (SideAt(job.initial_fen, jlog.last.ply) = WHITE)
    /\ Returned => Res.plies_analyzed <= Len(job.uci_moves)

\* the returned notes mention ply j as the place of an illegal move
MentionsPly(notes, j) ==
    \E k \in 1..Len(notes) :
        notes[k].what \in {"illegal at ply", "illegal move"} /\ notes[k].ply = j

\* the last pass of the loop was for a move the position does not allow, and the loop
\* was not cut by MAX_PLIES before it
IllegalReached ==
    /\ jlog.last.ply >= 1 /\ jlog.last.what # "cut"
    /\ ~Legal(job.uci_moves[jlog.last.ply])

\* C20 as stated: whenever the move at ply j cannot be applied, the analysis stops at
\* ply j without counting it, keeps what earlier plies scored, and the notes mention
\* the ply
C20_IllegalMoveNoted ==
    (Returned /\ IllegalReached) =>
        /\ Res.plies_analyzed = jlog.scored_w + jlog.scored_b
        /\ Res.plies_analyzed <= jlog.last.ply - 1
        /\ MentionsPly(Res.notes, jlog.last.ply)

\* C20 amended: a pass in which push_uci is tried and rejects the move (on a skipped
\* ply, or on a scored ply whose pre-move analyse call returned) ends the loop, leaves
\* every count and loss sum as it was and appends a note naming the ply; the returned
\* tuple has the counts and losses of the earlier scored plies and that note
C20_IllegalMoveStops ==
    /\ [][(jpc = "loop" /\ jlog'.last.what = "illegal") =>
            /\ jpc' = "finish"
            /\ jlog'.last.ply = loc.ply_idx + 1
            /\ loc'.n_w = loc.n_w /\ loc'.n_b = loc.n_b
            /\ loc'.acpl_w = loc.acpl_w /\ loc'.acpl_b = loc.acpl_b
            /\ Len(loc'.notes) = Len(loc.notes) + 1
            /\ MentionsPly(loc'.notes, loc.ply_idx + 1)]_vars
    /\ []((Returned /\ jlog.last.what = "illegal") =>
            /\ Res.plies_analyzed = jlog.scored_w + jlog.scored_b
            /\ Res.plies_analyzed <= jlog.last.ply - 1
            /\ Res.acpl_white = Rat(jlog.loss_w, Max2(1, jlog.scored_w))
            /\ Res.acpl_black = Rat(jlog.loss_b, Max2(1, jlog.scored_b))
            /\ MentionsPly(Res.notes, jlog.last.ply))

\* two plies scored with a loss, the third move rejected by push_uci
C20_Witness ==
    /\ Returned /\ jlog.last.what = "illegal" /\ jlog.last.ply = 3
    /\ Res.plies_analyzed = 2 /\ jlog.loss_w > 0
    /\ Res.notes = <<NoteIllegal("h9h9", 3)>>

----------------------------------------------------------------------------
(* Claims about resolve_game_id, checked under SpecResolve *)

GameOf(d, id) == CHOOSE g \in d.games : g.id = id

\* games a and b share the candidate key
SameKey(a, b) ==
    /\ a.white_id = b.white_id /\ a.black_id = b.black_id /\ a.result = b.result
    /\ a.date = b.date /\ a.ply_count = b.ply_count

\* the stored moves of a and b differ within the first min(ProbeLen, length) plies
ProbeDiffers(d, a, b) == Take(d.moves[a.id], ProbeLen) # Take(d.moves[b.id], ProbeLen)

\* C6: called with the tags and moves of stored game A, resolve_game_id never returns
\* another stored game B that shares A's candidate key and whose stored moves differ
\* from A's within the first min(ProbeLen, length) plies, whichever has the lower id
C6_ResolverUniqueness ==
    (rpc = "done" /\ rin.own # None) =>
        \A b \in db.games :
            (/\ b.id # rin.own
             /\ SameKey(GameOf(db, rin.own), b)
             /\ ProbeDiffers(db, GameOf(db, rin.own), b)) => rout.gid # b.id

\* the second of two same-key games that differ in their first plies, resolved to itself
C6_Witness ==
    /\ rpc = "done" /\ rin.own = 2 /\ rout.gid = 2
    /\ \E b \in db.games :
         /\ b.id = 1 /\ SameKey(GameOf(db, 2), b) /\ ProbeDiffers(db, GameOf(db, 2), b)

\* C7: when the White name or the Black name (an absent tag being "Unknown") has no
\* row in players, resolve_game_id returns None having read nothing but players
C7_ResolverTotality ==
    (/\ rpc = "done"
     /\ \/ ~\E p \in db.players : p.name = NameOf(rin.tags.White)
        \/ ~\E p \in db.players : p.name = NameOf(rin.tags.Black)) =>
        /\ rout.gid = None
        /\ rout.read = {"players"}

\* White is a registered player and the Black tag is absent, "Unknown" not registered
C7_Witness ==
    /\ rpc = "done"
    /\ rin.tags.White = Padded("Ann") /\ rin.tags.Black = NoTag
    /\ ~\E p \in db.players : p.name = "Unknown"
    /\ db.games # {}
    /\ rout.gid = None

\* the stored games that the call's candidate key matches, whatever their moves
KeyMatches ==
    {g \in db.games :
        /\ PlayerName(db, g.white_id) = NameOf(rin.tags.White)
        /\ PlayerName(db, g.black_id) = NameOf(rin.tags.Black)
        /\ g.result = ResultOf(rin.tags.Result)
        /\ g.ply_count = Len(rin.uci_moves)
        /\ IF ParsePgnDateToIso(rin.tags.Date) = NullDate
           THEN g.date \in {NullDate, EmptyDate}
           ELSE g.date = ParsePgnDateToIso(rin.tags.Date)}

\* the key matches whose first k stored moves are the first k moves of the call
PrefixMatches(k) ==
    {g \in KeyMatches : SubSeq(db.moves[g.id], 1, k) = SubSeq(rin.uci_moves, 1, k)}

LowestId(S) == CHOOSE g \in S : \A h \in S : g.id <= h.id

\* C21: with no stored game matching the candidate key resolve_game_id returns None;
\* with exactly one it returns that one and reads no moves; with several it returns
\* the lowest-id one whose first k = min(ProbeLen, length) stored moves are the first
\* k moves of the call, and the lowest-id one of all when no prefix matches
C21_DisambiguationOrder ==
    (/\ rpc = "done"
     /\ \E p \in db.players : p.name = NameOf(rin.tags.White)
     /\ \E p \in db.players : p.name = NameOf(rin.tags.Black)) =>
        LET k == Min2(ProbeLen, Len(rin.uci_moves))
        IN /\ KeyMatches = {} => rout.gid = None
           /\ Cardinality(KeyMatches) = 1 =>
                 /\ rout.gid = LowestId(KeyMatches).id
                 /\ "moves" \notin rout.read
           /\ Cardinality(KeyMatches) > 1 =>
                 rout.gid = IF PrefixMatches(k) # {}
                            THEN LowestId(PrefixMatches(k)).id
                            ELSE LowestId(KeyMatches).id

\* two stored games share the key of the call, the moves of the call are those of
\* neither, and the call returned the first of them
C21_Witness ==
    /\ rpc = "done" /\ rin.own = None
    /\ Cardinality(KeyMatches) = 2
    /\ PrefixMatches(Min2(ProbeLen, Len(rin.uci_moves))) = {}
    /\ rout.gid = 1 /\ "moves" \in rout.read

\* the part can be read as a month or a day: an integer or "??"
Readable(part) == part.kind \in {"num", "??"}

\* the Date tag is absent, empty, starts with "?" or has among its first three parts
\* one that is missing or cannot be read
UnknownDate(s) ==
    \/ s = NoDate \/ s = EmptyTag
    \/ s[1].kind \in {"??", "????"}
    \/ s[1].kind # "num"
    \/ Len(s) < 3
    \/ ~Readable(s[2]) \/ ~Readable(s[3])

\* the stored games of the call's players, result and ply count
SamePairing ==
    {g \in db.games :
        /\ PlayerName(db, g.white_id) = NameOf(rin.tags.White)
        /\ PlayerName(db, g.black_id) = NameOf(rin.tags.Black)
        /\ g.result = ResultOf(rin.tags.Result)
        /\ g.ply_count = Len(rin.uci_moves)}

Shortlist == {rout.cands[i] : i \in DOMAIN rout.cands}

\* C23: a Date tag that is absent, empty, starts with "?" or cannot be parsed gives
\* the date None, and resolve_game_id then shortlists exactly the stored games of the
\* same white id, black id, result and ply count whose date is NULL or '', none with
\* a date; in a tag that parses, a month or day of "??" counts as 01
C23_UnknownDateMatching ==
    (/\ rpc = "done"
     /\ \E p \in db.players : p.name = NameOf(rin.tags.White)
     /\ \E p \in db.players : p.name = NameOf(rin.tags.Black)) =>
        IF UnknownDate(rin.tags.Date)
        THEN /\ ParsePgnDateToIso(rin.tags.Date) = NullDate
             /\ Shortlist = {g.id : g \in {h \in SamePairing : h.date.kind \in {"null", "empty"}}}
        ELSE LET s == rin.tags.Date
                 m == IF s[2].kind = "??" THEN 1 ELSE s[2].n
                 d == IF s[3].kind = "??" THEN 1 ELSE s[3].n
             IN /\ ParsePgnDateToIso(s) = Iso(s[1].n, m, d)
                /\ Shortlist = {g.id : g \in {h \in SamePairing : h.date = Iso(s[1].n, m, d)}}

\* a call whose Date tag has an unreadable month, on a chess.db holding games of the
\* same pairing with date NULL, date '' and two dates: the first two are shortlisted
C23_Witness ==
    /\ rpc = "done"
    /\ rin.tags.Date = <<Num(2024), Junk, Num(15)>>
    /\ db \in DatedDbs
    /\ Cardinality(SamePairing) = 4
    /\ rout.cands = <<1, 2>>

\* a call whose Date tag has "??" for month and day shortlists the game stored as of
\* the first of January of that year
C23_WildcardWitness ==
    /\ rpc = "done"
    /\ rin.tags.Date = <<Num(2024), QQ, QQ>>
    /\ db \in DatedDbs
    /\ rout.cands = <<4>>

----------------------------------------------------------------------------
(* Claims about the loader and the resolver together, checked under SpecLoad *)

\* C24: for every record with at least one move that process_pgn stored,
\* resolve_game_id called with the record's tags and moves returns a stored game, and
\* the date parse_pgn_date_to_iso gives for the record's Date tag is the date
\* parse_pgn_date stored in games.date
C24_LoaderResolverRoundTrip ==
    (rpc = "done" /\ lpc \in {"loaded", "crashed"} /\ rin.own # None) =>
        /\ rout.gid # None
        /\ ParsePgnDateToIso(rin.tags.Date) = GameOf(db, rin.own).date

----------------------------------------------------------------------------
(* Claims about main() and upsert_analysis_batch, checked under Spec *)

RowsOf(g) == {r \in analysis : r.game_id = g}

\* C1: whatever batches were upserted, the table holds at most one row per game_id,
\* none for a game_id never written, and the row of a written game_id equals the
\* tuple written last for it in every column
C1_UpsertLastWriteWins ==
    \A g \in DOMAIN lastw :
        /\ Cardinality(RowsOf(g)) <= 1
        /\ lastw[g] = <<>> => RowsOf(g) = {}
        /\ lastw[g] # <<>> => RowsOf(g) = {lastw[g][Len(lastw[g])]}

\* a game_id written twice with different tuples, and one written twice with the same
C1_Witness ==
    /\ \E g \in DOMAIN lastw : Len(lastw[g]) = 2 /\ lastw[g][1] # lastw[g][2]
    /\ \E g \in DOMAIN lastw : Len(lastw[g]) = 2 /\ lastw[g][1] = lastw[g][2]

\* a run that was killed after committing its first batch has been followed by a
\* run that went through
RerunCompleted == run = 2 /\ phase = "done" /\ killedAt > 0

JobIdentities == {jobs[i].game_id : i \in 1..Len(jobs)}

\* C2 as stated: after a kill past the first committed batch and a complete re-run,
\* the table has N rows for the N jobs
C2_RowPerJob == RerunCompleted => Cardinality(analysis) = Len(jobs)

\* C2 amended: after a kill past the first committed batch and a complete re-run, the
\* table has exactly one row per distinct game identity of the jobs, and it is the
\* table the completing run's tuples alone give on an empty table
C2_Resumable ==
    RerunCompleted =>
        /\ \A g \in JobIdentities : Cardinality(RowsOf(g)) = 1
        /\ \A r \in analysis : r.game_id \in JobIdentities
        /\ analysis = ExecuteMany({}, rows, 1)

\* three jobs of three games; the killed run had committed a batch whose rows the
\* completing run replaced by different ones
C2_Witness ==
    /\ RerunCompleted
    /\ Len(jobs) = 3 /\ Cardinality(JobIdentities) = 3
    /\ \E g \in JobIdentities : Len(lastw[g]) = 2 /\ lastw[g][1] # lastw[g][2]

\* tuples that workers returned or hold and that no committed batch has written
Uncommitted ==
    Len(rows) - written
    + (IF worker[1].proc = "up" THEN Len(worker[1].out) ELSE 0)
    + (IF worker[2].proc = "up" THEN Len(worker[2].out) ELSE 0)

\* C5: at no point of a run are more than BATCH analysed jobs uncommitted
C5_BoundedLoss == Uncommitted <= BATCH

\* the tuple the job at position i of jobs returned
RowOfJob(i) == rows[CHOOSE k \in 1..Len(rows) : src[k] = i]
\* the returned tuples in the order of the job list: what rows holds when the jobs
\* complete in the order they were submitted
InJobOrder == [i \in 1..Len(jobs) |-> RowOfJob(i)]

\* C13: when a run is through, the analysis table is the one the same per-job results
\* give when the jobs complete in submission order, whatever order they completed in
C13_OrderIndependent ==
    (phase = "done" /\ jobs # <<>>) =>
        analysis = ExecuteMany({}, SortByGameId(InJobOrder), 1)

\* C14: once the pool is shut down (the batch loop, normal completion, a fatal batch
\* failure), no engine process a worker started is still running
C14_NoOrphanEngines ==
    phase \in {"write", "done", "crashed"} =>
        \A e \in DOMAIN engines : engines[e].state # "running"

\* C15: when the engine binary, the PGN file or chess.db is missing, the only step
\* the program takes is the exit with status 1: the analysis table is not created,
\* nothing is scanned or resolved, no worker or engine is started, no row is written
C15_ConfigErrorsFatal ==
    [][env # Files =>
         /\ phase = "start" /\ phase' = "exit1"
         /\ UNCHANGED <<hasTable, analysis, jobs, tasks, worker, engines, rows, db>>]_vars

\* the run has exited with status 1 because chess.db is missing
C15_Witness ==
    phase = "exit1" /\ env = Files \ {"db"} /\ hasTable = FALSE /\ analysis = {}

\* the job a worker is executing: the first of what is left of its task
Executing(w) == IF worker[w].chunk = <<>> THEN {} ELSE {Head(worker[w].chunk)}
InHand(w) == {worker[w].chunk[k] : k \in 1..Len(worker[w].chunk)}

\* while the pool is up every worker's handle refers to an engine that worker started,
\* no two workers have the same engine, there are as many engines as workers, and no
\* job is in the hands of two workers
Exclusive ==
    /\ Len(engines) = Cardinality(WorkerIds)
    /\ \A w \in WorkerIds :
         /\ worker[w].proc = "up"
         /\ worker[w].engine \in DOMAIN engines
         /\ engines[worker[w].engine].owner = w
         /\ Cardinality(Executing(w)) <= 1
    /\ \A w1, w2 \in WorkerIds :
         w1 # w2 => /\ worker[w1].engine # worker[w2].engine
                    /\ InHand(w1) \cap InHand(w2) = {}

NextBatch == SubSeq(rows, written + 1, Min2(written + BATCH, Len(rows)))

\* the step is a pass of main()'s batch loop
BatchPass == phase = "write" /\ written < Len(rows) /\ phase' \in {"write", "done", "crashed"}
             /\ db' = db

\* C22: a batch with a row whose game_id has no games row makes upsert_analysis_batch
\* raise, which ends main(); the analysis table is then exactly what it was before
\* the call (no row of the failed batch is in it that was not there before, and the
\* rows of the batches committed earlier are all there); a batch without such a row
\* never ends main()
C22_BatchAtomicity ==
    [][BatchPass =>
          IF ForeignKeysHold(db, NextBatch)
          THEN phase' # "crashed"
          ELSE /\ phase' = "crashed"
               /\ analysis' = analysis
               /\ written' = written
               /\ \A i \in 1..written : \E r \in analysis' : r.game_id = rows[i].game_id]_vars

\* main() ended by the second batch, whose only game was deleted after the first batch
\* of BATCH rows was committed; the rows of the first batch are in the table
C22_Witness ==
    /\ phase = "crashed"
    /\ written = BATCH /\ Len(rows) > BATCH
    /\ ~ForeignKeysHold(db, NextBatch)
    /\ \A i \in 1..written : \E r \in analysis : r.game_id = rows[i].game_id
    /\ \A i \in written + 1..Len(rows) : ~\E r \in analysis : r.game_id = rows[i].game_id

----------------------------------------------------------------------------
(* Claims about the run as a whole, checked under FairSpec *)

\* the jobs a tuple may come from
JobsOf(g) == {jobs[i] : i \in {k \in 1..Len(jobs) : jobs[k].game_id = g}}

\* a tuple that scored fewer plies than its job has (SKIP_PLIES = 0, MAX_PLIES = None:
\* the job met a fault) carries a note
Noted(r) ==
    (\E j \in JobsOf(r.game_id) : r.plies_analyzed < Len(j.uci_moves)) => r.notes # <<>>

\* every job of the run has a row in the analysis table
AllPersisted == \A i \in 1..Len(jobs) : RowsOf(jobs[i].game_id) # {}

\* C12: whatever engine faults the jobs of a run meet, a run that has its jobs in the
\* pool goes on (unless killed from outside) to end with a row persisted for every
\* job, and every tuple of a job cut short by a fault carries a note
C12_JobFaultsNeverAbort ==
    /\ [](\A i \in 1..Len(rows) : Noted(rows[i]))
    /\ [](phase = "done" => \A r \in analysis : Noted(r))
    /\ (phase = "collect") ~> ((phase = "done" /\ AllPersisted) \/ phase = "killed")

\* a finished run, never killed, in which one job lost its engine midway (one ply
\* scored), a later job of the same worker found it dead and another met a protocol
\* error, all three persisted with their notes
C12_Witness ==
    /\ phase = "done" /\ run = 1 /\ AllPersisted
    /\ \E r \in analysis : r.plies_analyzed = 1 /\ r.notes = <<NoteFault(Terminated)>>
    /\ \E r \in analysis : r.plies_analyzed = 0 /\ r.notes = <<NoteFault(Terminated)>>
    /\ \E r \in analysis : r.plies_analyzed = 0 /\ r.notes = <<NoteFault(ProtoError)>>

\* the states of the job at position i of jobs: 1 Queued (in the job list or in a
\* task no worker has taken), 2 Dispatched (in a worker's hands), 3 Scored (its tuple
\* is with the worker or in rows), 4 Persisted (its tuple is in a committed batch)
JobState(i) ==
    IF \E k \in 1..Len(src) : src[k] = i
    THEN IF (CHOOSE k \in 1..Len(src) : src[k] = i) <= written THEN 4 ELSE 3
    ELSE IF \E w \in WorkerIds : \E k \in 1..Len(worker[w].out) : worker[w].out[k].job = i
    THEN 3
    ELSE IF \E w \in WorkerIds : i \in InHand(w) THEN 2
    ELSE 1

\* a step within one run: the job list stays
SameRun == jobs # <<>> /\ jobs' = jobs

\* C17: within a run every job goes from Queued to Dispatched to Scored to Persisted,
\* one state at a time and never back; a Persisted job has its row in the table; the
\* table changes only in the parent's batch loop, after the workers have ended, and
\* by tuples the workers returned; and a job in a worker's hands, faulting or not,
\* goes on to be Persisted unless the run is killed
C17_JobStateOrder ==
    /\ [][SameRun => \A i \in 1..Len(jobs) :
                        JobState(i)' = JobState(i) \/ JobState(i)' = JobState(i) + 1]_vars
    /\ [](\A i \in 1..Len(jobs) : JobState(i) = 4 => RowsOf(jobs[i].game_id) # {})
    /\ [][analysis' # analysis =>
            /\ phase = "write"
            /\ \A w \in WorkerIds : worker[w].proc = "ended"
            /\ \A r \in analysis' \ analysis : \E k \in 1..Len(rows) : rows[k] = r]_vars
    /\ \A i \in 1..MaxGames :
         (i <= Len(jobs) /\ JobState(i) = 2)
             ~> ((i <= Len(jobs) /\ JobState(i) = 4) \/ phase = "killed")

\* between the batches of a run of three jobs: one job is Persisted, one is Scored and
\* waits for the second batch, and a tuple already committed carries a fault note
C17_Witness ==
    /\ phase = "write" /\ Len(jobs) = 3
    /\ \E i, j \in 1..Len(jobs) : JobState(i) = 4 /\ JobState(j) = 3
    /\ \E k \in 1..written : rows[k].notes # <<>>

====
